---- MODULE Spec2Model ----
(***************************************************************************)
(* A model of job_scraper.py (class JobScraper): configuration merge,      *)
(* enabled-site selection, keyword matchers, the scrape/aggregate loop,    *)
(* the two filters and the output writer.                                  *)
(*                                                                         *)
(* Strings that the code inspects character by character (keywords,        *)
(* descriptions, regular expressions, file names) are sequences of tokens. *)
(***************************************************************************)
EXTENDS Integers, Sequences, FiniteSets, TLC

VARIABLES
    config,       \* self.config
    output_path,  \* the argument of run()
    market,       \* environment: the tables the scrape collaborator may return
    pc,           \* position of the running operation
    current,      \* scrape_all: number of (country, role) pairs started
    calls,        \* environment: log of the invocations of scrape_jobs
    all_jobs,     \* scrape_all: the list of non-empty result tables
    stats,        \* self.stats
    jobs_df,      \* run: the deduplicated raw collection
    filtered_df,  \* run: the collection after both filter passes
    files,        \* environment: log of the files written, in order
    printed,      \* environment: the counts the filter passes print, in order
    enabled,      \* result of get_enabled_sites()
    text,         \* a description handed to the inclusion matcher
    matched,      \* result of the inclusion matcher on text
    heap,         \* the dict objects of a configuration merge, by address
    history       \* the heaps before each _deep_update call, oldest first

vars == <<config, output_path, market, pc, current, calls, all_jobs, stats,
          jobs_df, filtered_df, files, printed, enabled, text, matched, heap,
          history>>

----------------------------------------------------------------------------
(* Bounds of the model *)

MaxSiteList == 2   \* longest priority / secondary list
MaxKwLen == 2      \* longest keyword, in characters
MaxTextLen == 2    \* longest description, in characters
MaxRows == 2       \* most rows of an ordinary result table
BulkLen == 5       \* rows of a bulk result table
MaxScalar == 2     \* scalar configuration values are 1..MaxScalar
MaxMerges == 2     \* times the same overlay is merged

----------------------------------------------------------------------------
(* Generic helpers *)

\* None / NaN where a string (a sequence of tokens) is expected
Null == <<"<null>">>

Range(s) == {s[i] : i \in 1..Len(s)}

SeqsUpTo(S, n) == UNION {[1..k -> S] : k \in 0..n}

RECURSIVE Concat(_)
Concat(ss) == IF ss = <<>> THEN <<>> ELSE Head(ss) \o Concat(Tail(ss))

RECURSIVE SumOver(_, _)
SumOver(f, D) ==
    IF D = {} THEN 0
    ELSE LET d == CHOOSE x \in D : TRUE IN f[d] + SumOver(f, D \ {d})

\* str.replace(old, new) on a tokenised string: every occurrence is replaced.
RECURSIVE Replace(_, _, _)
Replace(s, old, new) ==
    IF s = <<>> THEN <<>>
    ELSE (IF Head(s) = old THEN new ELSE <<Head(s)>>) \o Replace(Tail(s), old, new)

----------------------------------------------------------------------------
(* Configuration *)

SiteNames == {"indeed", "glassdoor", "linkedin"}

\* DEFAULT_CONFIG, with the long lists abridged: two roles, two countries,
\* one priority and one secondary site, one inclusion keyword ("v" stands
\* for 'visa') and one exclusion keyword ("e" stands for 'EU citizen').
DEFAULT_CONFIG ==
    [ job_roles |-> <<"DevOps Engineer", "Site Reliability Engineer">>,
      countries |-> <<"germany", "netherlands">>,
      job_sites |-> [ priority |-> <<"indeed">>,
                      secondary |-> <<"linkedin">>,
                      disabled |-> {} ],
      visa_keywords |-> << <<"v">> >>,
      output |-> [ format |-> "csv",
                   directory |-> "results/",
                   filename_pattern |-> <<"jobs_", "{timestamp}", ".csv">> ],
      exclusion_keywords |-> << <<"e">> >>,
      filters |-> [ visa_sponsorship_filter |-> TRUE,
                    exclusion_filter |-> TRUE,
                    case_sensitive |-> FALSE ] ]

\* JobScraper.get_enabled_sites
get_enabled_sites_swapped(cfg) ==
    LET all_sites == cfg.job_sites.secondary \o cfg.job_sites.priority
    IN  SelectSeq(all_sites, LAMBDA site : site \notin cfg.job_sites.disabled)

get_enabled_sites(cfg) ==
    LET priority == cfg.job_sites.priority
        secondary == cfg.job_sites.secondary
        disabled == cfg.job_sites.disabled
        all_sites == priority \o secondary
    IN  SelectSeq(all_sites, LAMBDA site : site \notin disabled)

----------------------------------------------------------------------------
(* Values the variables take while another operation is being checked *)

NoStats == [total_scraped |-> 0, after_filter |-> 0,
            by_site |-> <<>>, by_country |-> <<>>]

IdleRun ==
    /\ output_path = Null
    /\ market = {}
    /\ current = 0
    /\ calls = <<>>
    /\ all_jobs = <<>>
    /\ stats = NoStats
    /\ jobs_df = <<>>
    /\ filtered_df = <<>>
    /\ files = <<>>
    /\ printed = <<>>

IdleSites == enabled = <<>>

IdleMatch == text = Null /\ matched = FALSE

IdleMerge == heap = <<>> /\ history = <<>>

----------------------------------------------------------------------------
(* get_enabled_sites on every configuration of the site lists *)

InitSites ==
    /\ \E p \in SeqsUpTo(SiteNames, MaxSiteList),
          s \in SeqsUpTo(SiteNames, MaxSiteList),
          d \in SUBSET SiteNames :
          config = [DEFAULT_CONFIG EXCEPT
                       !.job_sites = [priority |-> p, secondary |-> s, disabled |-> d]]
    /\ pc = "sites"
    /\ IdleRun /\ IdleSites /\ IdleMatch /\ IdleMerge

GetEnabledSites ==
    /\ pc = "sites"
    /\ enabled' = get_enabled_sites(config)
    /\ pc' = "sites_done"
    /\ UNCHANGED <<config, output_path, market, current, calls, all_jobs, stats,
                   jobs_df, filtered_df, files, printed, text, matched, heap, history>>

NextSites == GetEnabledSites

SpecSites == InitSites /\ [][NextSites]_vars

\* The entries of a list that are not disabled, in order (computed back to front).
RECURSIVE Retained(_, _)
Retained(list, disabled) ==
    IF list = <<>> THEN <<>>
    ELSE LET n == Len(list)
             init == Retained(SubSeq(list, 1, n - 1), disabled)
         IN  IF list[n] \in disabled THEN init ELSE Append(init, list[n])

\* C1: the list returned by get_enabled_sites() holds no disabled site, holds
\* every non-disabled site of priority and secondary, and is the retained
\* priority sites in their configured order followed by the retained
\* secondary sites in theirs.
C1_EnabledSites ==
    pc = "sites_done" =>
        LET js == config.job_sites
            keptP == Retained(js.priority, js.disabled)
            keptS == Retained(js.secondary, js.disabled)
        IN  /\ \A i \in 1..Len(enabled) : enabled[i] \notin js.disabled
            /\ \A site \in (Range(js.priority) \cup Range(js.secondary)) \ js.disabled :
                   site \in Range(enabled)
            /\ Len(enabled) = Len(keptP) + Len(keptS)
            /\ \A i \in 1..Len(keptP) : enabled[i] = keptP[i]
            /\ \A i \in 1..Len(keptS) : enabled[Len(keptP) + i] = keptS[i]

\* C1 witness: a disabled site was dropped and a retained priority site
\* stands before a retained secondary site.
C1_Witness ==
    /\ pc = "sites_done"
    /\ Len(enabled) = 2
    /\ enabled[1] \in Range(config.job_sites.priority)
    /\ enabled[2] \in Range(config.job_sites.secondary)
    /\ enabled[1] # enabled[2]
    /\ Range(config.job_sites.priority) \cap config.job_sites.disabled # {}

\* C10: the list returned by get_enabled_sites() names no site more than once.
C10_NoDuplicates ==
    pc = "sites_done" =>
        \A i, j \in 1..Len(enabled) : i # j => enabled[i] # enabled[j]

----------------------------------------------------------------------------
(* Keyword matchers: re.escape, '|'.join, re.compile, Series.str.contains *)

\* The characters of the modelled keywords and descriptions: a letter in both
\* cases, a second letter, and a character that is special in a pattern.
Alphabet == {"v", "V", "e", "."}

\* The characters re.escape puts a backslash before (of those modelled).
Special == {".", "|"}

\* str.lower on one character, as re.IGNORECASE folds it
Lower(c) == IF c = "V" THEN "v" ELSE c

\* re.escape(kw)
re_escape_none(kw) == kw

re_escape(kw) ==
    Concat([i \in 1..Len(kw) |->
               IF kw[i] \in Special THEN <<"\\", kw[i]>> ELSE <<kw[i]>>])

\* '|'.join(escaped)
RECURSIVE Join(_)
Join(parts) ==
    IF parts = <<>> THEN <<>>
    ELSE IF Len(parts) = 1 THEN parts[1]
    ELSE parts[1] \o <<"|">> \o Join(Tail(parts))

\* re.compile(pattern): the alternatives of the pattern, each a sequence of
\* atoms; an atom is a literal character or the wildcard '.'.  `alts` holds
\* the alternatives already closed, `cur` the one being read.
RECURSIVE Parse(_, _, _)
Parse(pattern, alts, cur) ==
    IF pattern = <<>> THEN Append(alts, cur)
    ELSE IF Head(pattern) = "\\" /\ Len(pattern) >= 2
         THEN Parse(SubSeq(pattern, 3, Len(pattern)), alts,
                    Append(cur, [any |-> FALSE, ch |-> pattern[2]]))
    ELSE IF Head(pattern) = "|"
         THEN Parse(Tail(pattern), Append(alts, cur), <<>>)
    ELSE IF Head(pattern) = "."
         THEN Parse(Tail(pattern), alts, Append(cur, [any |-> TRUE, ch |-> "."]))
    ELSE Parse(Tail(pattern), alts, Append(cur, [any |-> FALSE, ch |-> Head(pattern)]))

re_compile(pattern, ignorecase) ==
    [alts |-> Parse(pattern, <<>>, <<>>), ignorecase |-> ignorecase]

\* One atom against one character
AtomMatches(atom, c, ignorecase) ==
    \/ atom.any
    \/ IF ignorecase THEN Lower(atom.ch) = Lower(c) ELSE atom.ch = c

\* re.search: some alternative matches at some position of the string
re_search(regex, str) ==
    \E k \in 1..Len(regex.alts) :
        LET alt == regex.alts[k] IN
        \E start \in 0..(Len(str) - Len(alt)) :
            \A i \in 1..Len(alt) : AtomMatches(alt[i], str[start + i], regex.ignorecase)

\* JobScraper.compile_visa_keywords_pattern
compile_visa_keywords_pattern(cfg) ==
    LET keywords == cfg.visa_keywords
        escaped == [i \in 1..Len(keywords) |-> re_escape(keywords[i])]
        pattern == Join(escaped)
    IN  re_compile(pattern, ~cfg.filters.case_sensitive)

\* None where a compiled pattern is expected (re.compile yields at least one
\* alternative)
NonePattern == [alts |-> <<>>, ignorecase |-> FALSE]

\* JobScraper.compile_exclusion_keywords_pattern
compile_exclusion_keywords_pattern(cfg) ==
    LET keywords == cfg.exclusion_keywords IN
    IF keywords = <<>> THEN NonePattern
    ELSE LET escaped == [i \in 1..Len(keywords) |-> re_escape(keywords[i])]
             pattern == Join(escaped)
         IN  re_compile(pattern, ~cfg.filters.case_sensitive)

\* Series.fillna('') on one description
FillNa(description) == IF description = Null THEN <<>> ELSE description

\* One entry of the mask of filter_by_visa_sponsorship: the description, with
\* NaN filled by '', searched with the compiled inclusion pattern.
VisaMask(cfg, description) ==
    re_search(compile_visa_keywords_pattern(cfg), FillNa(description))

----------------------------------------------------------------------------
(* The inclusion matcher on every keyword list and description *)

Keywords == SeqsUpTo(Alphabet \ {"e"}, MaxKwLen)

\* Keyword lists of at most two keywords
KeywordLists ==
    {<<>>} \cup {<<k>> : k \in Keywords} \cup {<<k1, k2>> : k1 \in Keywords, k2 \in Keywords}

Texts == SeqsUpTo(Alphabet \ {"e"}, MaxTextLen) \cup {Null}

InitMatch ==
    /\ \E kws \in KeywordLists, cs \in BOOLEAN :
          config = [DEFAULT_CONFIG EXCEPT !.visa_keywords = kws,
                                          !.filters.case_sensitive = cs]
    /\ text \in Texts
    /\ matched = FALSE
    /\ pc = "match"
    /\ IdleRun /\ IdleSites /\ IdleMerge

MatchText ==
    /\ pc = "match"
    /\ matched' = VisaMask(config, text)
    /\ pc' = "match_done"
    /\ UNCHANGED <<config, output_path, market, current, calls, all_jobs, stats,
                   jobs_df, filtered_df, files, printed, enabled, text, heap, history>>

NextMatch == MatchText

SpecMatch == InitMatch /\ [][NextMatch]_vars

\* kw occurs in str as a literal substring; with fold, letter case is ignored
Occurs(kw, str, fold) ==
    \E start \in 0..(Len(str) - Len(kw)) :
        \A i \in 1..Len(kw) :
            IF fold THEN Lower(kw[i]) = Lower(str[start + i]) ELSE kw[i] = str[start + i]

SomeKeywordOccurs(kws, str, fold) ==
    \E k \in 1..Len(kws) : Occurs(kws[k], str, fold)

----------------------------------------------------------------------------
(* Configuration merge: load_config and _deep_update.                      *)
(* A configuration is a dict object whose values are scalars or references *)
(* to further dict objects; `heap` maps the address of every dict object   *)
(* to its contents, so that an assignment base_dict[key] = value stores    *)
(* the overlay's own object, as in Python.                                 *)

Keys == {"a", "b"}

\* The orders in which the items of an overlay may be visited
KeyOrders == {<<"a", "b">>, <<"b", "a">>}

Scalar(n) == [dict |-> FALSE, val |-> n]

Ref(addr) == [dict |-> TRUE, ref |-> addr]

ScalarValues == {Scalar(n) : n \in 1..MaxScalar}

BaseRoot == <<"base">>

OverRoot == <<"overlay">>

Child(root, key) == Append(root, key)

\* base_dict[key] = value
Put(d, key, value) ==
    [k \in DOMAIN d \cup {key} |-> IF k = key THEN value ELSE d[k]]

\* dict.update: every value replaces wholesale (no recursion)
shallow_update(h, base_dict, update_dict, order) ==
    LET upd == h[update_dict]
    IN  [h EXCEPT ![base_dict] =
            [k \in DOMAIN h[base_dict] \cup DOMAIN upd |->
                IF k \in DOMAIN upd THEN upd[k] ELSE h[base_dict][k]]]

\* JobScraper._deep_update: the heap after the call.  `todo` are the keys of
\* update_dict not yet visited.
RECURSIVE deep_update_items(_, _, _, _, _)
deep_update_items(h, base_dict, update_dict, order, todo) ==
    IF todo = <<>> THEN h
    ELSE LET key == Head(todo) IN
         IF key \notin DOMAIN h[update_dict]
         THEN deep_update_items(h, base_dict, update_dict, order, Tail(todo))
         ELSE LET value == h[update_dict][key]
                  h1 == IF /\ key \in DOMAIN h[base_dict]
                           /\ h[base_dict][key].dict
                           /\ value.dict
                        THEN deep_update_items(h, h[base_dict][key].ref, value.ref,
                                               order, order)
                        ELSE [h EXCEPT ![base_dict] = Put(h[base_dict], key, value)]
              IN  deep_update_items(h1, base_dict, update_dict, order, Tail(todo))

_deep_update(h, base_dict, update_dict, order) ==
    deep_update_items(h, base_dict, update_dict, order, order)

\* The dict objects of one configuration of depth two rooted at `root`:
\* every key of the root is absent, a scalar, or a nested dict of scalars.
LeafDicts == UNION {[D -> ScalarValues] : D \in SUBSET Keys}

DictMark == [dict |-> TRUE, ref |-> <<>>]

Objects(root) ==
    { [addr \in {root} \cup {Child(root, k) : k \in Keys} |->
          IF addr = root
          THEN [k \in DOMAIN shape |->
                   IF shape[k] = DictMark THEN Ref(Child(root, k)) ELSE shape[k]]
          ELSE LET k == addr[Len(addr)] IN
               IF k \in DOMAIN shape /\ shape[k] = DictMark THEN nested[k] ELSE <<>>]
      : shape \in UNION {[D -> ScalarValues \cup {DictMark}] : D \in SUBSET Keys},
        nested \in [Keys -> LeafDicts] }

InitMerge ==
    /\ \E b \in Objects(BaseRoot), o \in Objects(OverRoot) : heap = b @@ o
    /\ history = <<>>
    /\ pc = "merge"
    /\ config = DEFAULT_CONFIG
    /\ IdleRun /\ IdleSites /\ IdleMatch

\* load_config once more with the same overlay
Merge ==
    /\ pc = "merge"
    /\ Len(history) < MaxMerges
    /\ \E order \in KeyOrders :
           heap' = _deep_update(heap, BaseRoot, OverRoot, order)
    /\ history' = Append(history, heap)
    /\ UNCHANGED <<config, output_path, market, pc, current, calls, all_jobs, stats,
                   jobs_df, filtered_df, files, printed, enabled, text, matched>>

NextMerge == Merge

SpecMerge == InitMerge /\ [][NextMerge]_vars

\* The dict at a1 in heap h1 and the dict at a2 in heap h2 hold the same
\* keys and, recursively, the same values.
RECURSIVE SameTree(_, _, _, _)
SameTree(h1, a1, h2, a2) ==
    /\ DOMAIN h1[a1] = DOMAIN h2[a2]
    /\ \A k \in DOMAIN h1[a1] :
           LET v1 == h1[a1][k]
               v2 == h2[a2][k]
           IN  IF v1.dict /\ v2.dict THEN SameTree(h1, v1.ref, h2, v2.ref)
               ELSE v1 = v2

SameValue(h1, v1, h2, v2) ==
    IF v1.dict /\ v2.dict THEN SameTree(h1, v1.ref, h2, v2.ref) ELSE v1 = v2

\* What one merge of the overlay dict u into the base dict b must have done,
\* h0 being the heap before and h1 the heap after: every non-dict overlay
\* value stands at its key, a dict overlay value stands at its key where the
\* base held no dict, dicts on both sides are merged key by key, and every
\* base key absent from the overlay keeps its value.
RECURSIVE MergedInto(_, _, _, _)
MergedInto(h0, h1, b, u) ==
    /\ DOMAIN h1[b] = DOMAIN h0[b] \cup DOMAIN h0[u]
    /\ \A k \in DOMAIN h0[u] :
           LET value == h0[u][k] IN
           IF ~value.dict THEN h1[b][k] = value
           ELSE IF k \in DOMAIN h0[b] /\ h0[b][k].dict
                THEN /\ h1[b][k].dict
                     /\ MergedInto(h0, h1, h0[b][k].ref, value.ref)
                ELSE SameValue(h1, h1[b][k], h0, value)
    /\ \A k \in DOMAIN h0[b] \ DOMAIN h0[u] : SameValue(h1, h1[b][k], h0, h0[b][k])

\* The heaps before the first merge, after the first and after the latest
HeapAt(i) == IF i <= Len(history) THEN history[i] ELSE heap

\* C9: merging the same overlay again leaves the base equal to what it was
\* after the first merge; and after a merge every non-dict overlay value has
\* replaced the base value at its key and every base key absent from the
\* overlay keeps its value (at the top level and inside merged dicts).
C9_DeepMerge ==
    pc = "merge" /\ Len(history) >= 1 =>
        /\ MergedInto(HeapAt(1), HeapAt(2), BaseRoot, OverRoot)
        /\ \A i \in 2..Len(history) :
               SameTree(HeapAt(i + 1), BaseRoot, HeapAt(2), BaseRoot)

\* C9 witness: the overlay was merged twice into a base whose nested dict
\* kept one key, had another replaced, and whose top level changed.
C9_Witness ==
    /\ pc = "merge"
    /\ Len(history) = 2
    /\ "a" \in DOMAIN history[1][BaseRoot]
    /\ history[1][BaseRoot]["a"].dict
    /\ "a" \in DOMAIN history[1][OverRoot]
    /\ history[1][OverRoot]["a"].dict
    /\ DOMAIN history[1][Child(BaseRoot, "a")] = {"a", "b"}
    /\ DOMAIN history[1][Child(OverRoot, "a")] = {"a"}
    /\ history[1][Child(OverRoot, "a")]["a"] # history[1][Child(BaseRoot, "a")]["a"]
    /\ ~SameTree(heap, BaseRoot, history[1], BaseRoot)
    /\ heap[Child(BaseRoot, "a")]["b"] = history[1][Child(BaseRoot, "a")]["b"]

----------------------------------------------------------------------------
(* Job posting rows and the scrape collaborator *)

Absent == "<absent>"   \* a column the row does not have (yet)

\* job_url values of ordinary result tables
SmallUrls == {1, 2}

\* The job board a posting URL belongs to
SiteOf(url) == IF url % 2 = 1 THEN "indeed" ELSE "linkedin"

\* A row as the collaborator returns it
Posting(url, description) ==
    [ job_url |-> url, site |-> SiteOf(url), description |-> description,
      search_country |-> Absent, search_role |-> Absent,
      visa_sponsorship_mentioned |-> Absent, note |-> Absent ]

\* Descriptions of postings: missing, mentioning a visa keyword, mentioning
\* an exclusion keyword, mentioning both
Descriptions == {Null, <<"v">>, <<"e">>, <<"v", "e">>}

OrdinaryTables(descriptions) ==
    SeqsUpTo({Posting(u, d) : u \in SmallUrls, d \in descriptions}, MaxRows)

\* Tables of BulkLen rows with consecutive, distinct job_urls
\* (job_urls 1..BulkLen, and BulkLen..2*BulkLen-1: the two share one job_url)
BulkTables ==
    {[i \in 1..BulkLen |-> Posting(start + i - 1, <<"v">>)] : start \in {1, BulkLen}}

\* What one call of scrape_jobs may do: return a table or raise
Outcomes == {[ok |-> TRUE, table |-> t] : t \in market}
                \cup {[ok |-> FALSE, table |-> <<>>]}

----------------------------------------------------------------------------
(* scrape_jobs_for_country and scrape_all *)

total_combinations == Len(config.countries) * Len(config.job_roles)

\* If the loops were nested the other way round (role-major)
PairAt_role_major(n) ==
    [ country |-> config.countries[((n - 1) % Len(config.countries)) + 1],
      role |-> config.job_roles[((n - 1) \div Len(config.countries)) + 1] ]

\* The (country, role) pair of the n-th iteration of the nested loops
PairAt(n) ==
    [ country |-> config.countries[((n - 1) \div Len(config.job_roles)) + 1],
      role |-> config.job_roles[((n - 1) % Len(config.job_roles)) + 1] ]

\* f[key] = f.get(key, 0) + n
AddTo(f, key, n) ==
    [k \in DOMAIN f \cup {key} |->
        (IF k \in DOMAIN f THEN f[k] ELSE 0) + (IF k = key THEN n ELSE 0)]

CountSite(table, site) == Cardinality({i \in 1..Len(table) : table[i].site = site})

\* for site in jobs_df['site'].unique(): by_site[site] = by_site.get(site, 0) + ...
RECURSIVE AddSites(_, _, _)
AddSites(by_site, table, sites) ==
    IF sites = {} THEN by_site
    ELSE LET site == CHOOSE x \in sites : TRUE
         IN  AddSites(AddTo(by_site, site, CountSite(table, site)), table, sites \ {site})

\* The statistics update of scrape_jobs_for_country
update_stats_no_site(st, country, table) ==
    [st EXCEPT !.total_scraped = @ + Len(table),
               !.by_country = AddTo(@, country, Len(table))]

update_stats(st, country, table) ==
    [st EXCEPT !.total_scraped = @ + Len(table),
               !.by_country = AddTo(@, country, Len(table)),
               !.by_site = AddSites(@, table, {table[i].site : i \in 1..Len(table)})]

\* jobs_df['search_country'] = country; jobs_df['search_role'] = role
Stamp(table, country, role) ==
    [i \in 1..Len(table) |->
        [table[i] EXCEPT !.search_country = country, !.search_role = role]]

\* DataFrame.drop_duplicates(subset=['job_url'], keep='first')
RECURSIVE drop_keep_last(_)
drop_keep_last(rows) ==
    IF rows = <<>> THEN <<>>
    ELSE IF \E i \in 2..Len(rows) : rows[i].job_url = Head(rows).job_url
         THEN drop_keep_last(Tail(rows))
         ELSE <<Head(rows)>> \o drop_keep_last(Tail(rows))

drop_duplicates(rows) ==
    LET marked == [i \in 1..Len(rows) |->
                      [row |-> rows[i],
                       first |-> \A j \in 1..(i - 1) : rows[j].job_url # rows[i].job_url]]
        kept == SelectSeq(marked, LAMBDA e : e.first)
    IN  [i \in 1..Len(kept) |-> kept[i].row]

\* One iteration of the loops of scrape_all: scrape_jobs_for_country for the
\* next pair, and the append of a non-empty result.
ScrapePair ==
    /\ pc = "scrape"
    /\ current < total_combinations
    /\ current' = current + 1
    /\ LET pair == PairAt(current + 1)
           enabled_sites == get_enabled_sites(config)
       IN  IF enabled_sites = <<>>
           THEN UNCHANGED <<calls, stats, all_jobs>>
           ELSE \E outcome \in Outcomes :
                  /\ calls' = Append(calls, [ site_name |-> enabled_sites,
                                              search_term |-> pair.role,
                                              location |-> pair.country,
                                              ok |-> outcome.ok,
                                              returned |-> outcome.table ])
                  /\ IF outcome.ok /\ outcome.table # <<>>
                     THEN /\ stats' = update_stats(stats, pair.country, outcome.table)
                          /\ all_jobs' = Append(all_jobs,
                                 Stamp(outcome.table, pair.country, pair.role))
                     ELSE UNCHANGED <<stats, all_jobs>>
    /\ UNCHANGED <<config, output_path, market, pc, jobs_df, filtered_df, files,
                   printed, enabled, text, matched, heap, history>>

\* The end of scrape_all: concatenate, drop duplicates, return to run(), which
\* stops at once on an empty collection.
Combine ==
    /\ pc = "scrape"
    /\ current = total_combinations
    /\ jobs_df' = IF all_jobs = <<>> THEN <<>>
                  ELSE drop_duplicates(Concat(all_jobs))
    /\ pc' = IF jobs_df' = <<>> THEN "done" ELSE "filter"
    /\ UNCHANGED <<config, output_path, market, current, calls, all_jobs, stats,
                   filtered_df, files, printed, enabled, text, matched, heap,
                   history>>

----------------------------------------------------------------------------
(* The two filters.  Every table of the collaborator has a description     *)
(* column, so the 'no description column' exits are not modelled.          *)

\* jobs_df['description'] = jobs_df['description'].fillna('')
FillNaAll(df) == [i \in 1..Len(df) |-> [df[i] EXCEPT !.description = FillNa(@)]]

\* JobScraper.filter_by_visa_sponsorship: the table it returns
filter_by_visa_sponsorship_always(cfg, df) ==
    LET pattern == compile_visa_keywords_pattern(cfg)
        filtered == SelectSeq(FillNaAll(df), LAMBDA r : re_search(pattern, r.description))
    IN  [i \in 1..Len(filtered) |->
            [filtered[i] EXCEPT !.visa_sponsorship_mentioned = "True"]]

filter_by_visa_sponsorship(cfg, df) ==
    IF ~cfg.filters.visa_sponsorship_filter THEN df
    ELSE IF df = <<>> THEN df
    ELSE LET pattern == compile_visa_keywords_pattern(cfg)
             filled == FillNaAll(df)
             filtered == SelectSeq(filled, LAMBDA r : re_search(pattern, r.description))
         IN  [i \in 1..Len(filtered) |->
                 [filtered[i] EXCEPT !.visa_sponsorship_mentioned = "True"]]

\* Whether filter_by_visa_sponsorship fills the descriptions of its argument
\* in place
VisaFills(cfg, df) == cfg.filters.visa_sponsorship_filter /\ df # <<>>

\* JobScraper.filter_by_exclusion: the table it returns
filter_by_exclusion(cfg, df) ==
    IF ~cfg.filters.exclusion_filter THEN df
    ELSE IF df = <<>> THEN df
    ELSE LET pattern == compile_exclusion_keywords_pattern(cfg) IN
         IF pattern = NonePattern THEN df
         ELSE SelectSeq(FillNaAll(df), LAMBDA r : ~re_search(pattern, r.description))

\* Whether filter_by_exclusion fills the descriptions of its argument in place
ExclusionFills(cfg, df) ==
    /\ cfg.filters.exclusion_filter
    /\ df # <<>>
    /\ compile_exclusion_keywords_pattern(cfg) # NonePattern

----------------------------------------------------------------------------
(* save_results *)

NoVisaNote == "No visa keywords found - manual review needed"

UnfilteredNote == "Unfiltered - may not have visa keywords"

\* jobs_df['note'] = note
WithNote(df, note) == [i \in 1..Len(df) |-> [df[i] EXCEPT !.note = note]]

\* jobs_df.drop(columns=['description']); the order of the columns is not
\* modelled
DropDescription(df) ==
    [i \in 1..Len(df) |->
        [ job_url |-> df[i].job_url, site |-> df[i].site,
          search_country |-> df[i].search_country, search_role |-> df[i].search_role,
          visa_sponsorship_mentioned |-> df[i].visa_sponsorship_mentioned,
          note |-> df[i].note ]]

\* jobs_df['site'].unique(): the sites in the order of their first row
RECURSIVE UniqueSites(_, _)
UniqueSites(df, seen) ==
    IF df = <<>> THEN <<>>
    ELSE IF Head(df).site \in seen THEN UniqueSites(Tail(df), seen)
    ELSE <<Head(df).site>> \o UniqueSites(Tail(df), seen \cup {Head(df).site})

\* The path save_results writes the table to, before the format is applied
TargetPath(cfg, path, suffix, timestamp) ==
    IF path = Null
    THEN LET filename == Replace(cfg.output.filename_pattern, "{timestamp}", <<timestamp>>)
         IN  <<cfg.output.directory>> \o
                 (IF suffix # "" THEN Replace(filename, ".csv", <<suffix, ".csv">>)
                  ELSE filename)
    ELSE IF suffix # "" THEN Replace(path, ".csv", <<suffix, ".csv">>)
    ELSE path

\* The path after the format is applied
FormatPath(cfg, path) ==
    IF cfg.output.format = "json" THEN Replace(path, ".csv", <<".json">>)
    ELSE IF cfg.output.format = "excel" THEN Replace(path, ".csv", <<".xlsx">>)
    ELSE path

\* JobScraper.save_results: the files it writes, in order
save_results(cfg, df, path, suffix, timestamp) ==
    IF df = <<>> THEN <<>>
    ELSE LET rows == DropDescription(df)
             target == FormatPath(cfg, TargetPath(cfg, path, suffix, timestamp))
             sites == UniqueSites(rows, {})
             main == [ path |-> target, rows |-> rows, suffix |-> suffix,
                       kind |-> "table",
                       format |-> IF cfg.output.format \in {"json", "excel"}
                                  THEN cfg.output.format ELSE "csv" ]
             per_site == [k \in 1..Len(sites) |->
                            [ path |-> Replace(target, ".csv", <<"_", sites[k], ".csv">>),
                              rows |-> SelectSeq(rows, LAMBDA r : r.site = sites[k]),
                              suffix |-> suffix, kind |-> "site", format |-> "csv" ]]
         IN  IF Len(sites) > 1 THEN <<main>> \o per_site ELSE <<main>>

----------------------------------------------------------------------------
(* run(), after scrape_all() returned a non-empty collection *)

\* Timestamps of the first and the second save_results call of one run
TimestampPairs == {<<"t1", "t1">>, <<"t1", "t2">>}

\* If the fallback applies when nothing passed: the tables run() saves
saved_without_fallback(cfg, raw, filtered, path, t1, t2) ==
    IF filtered # <<>>
    THEN save_results(cfg, filtered, path, "", t1)
            \o (IF Len(filtered) < Len(raw)
                THEN save_results(cfg, WithNote(raw, UnfilteredNote), path, "_all_jobs", t2)
                ELSE <<>>)
    ELSE <<>>

\* If the '_all_jobs' table is saved whenever something passed
saved_all_jobs_always(cfg, raw, filtered, path, t1, t2) ==
    IF filtered = <<>> /\ raw # <<>>
    THEN save_results(cfg, WithNote(raw, NoVisaNote), path, "_unfiltered", t1)
    ELSE IF filtered # <<>>
    THEN save_results(cfg, filtered, path, "", t1)
            \o save_results(cfg, WithNote(raw, UnfilteredNote), path, "_all_jobs", t2)
    ELSE <<>>

saved(cfg, raw, filtered, path, t1, t2) ==
    IF filtered = <<>> /\ raw # <<>>
    THEN save_results(cfg, WithNote(raw, NoVisaNote), path, "_unfiltered", t1)
    ELSE IF filtered # <<>>
    THEN save_results(cfg, filtered, path, "", t1)
            \o (IF Len(filtered) < Len(raw)
                THEN save_results(cfg, WithNote(raw, UnfilteredNote), path, "_all_jobs", t2)
                ELSE <<>>)
    ELSE <<>>

\* What filter_by_visa_sponsorship prints about its argument: the rows found
\* and the rows filtered out
visa_report(cfg, df) ==
    IF VisaFills(cfg, df)
    THEN LET found == Len(filter_by_visa_sponsorship(cfg, df))
         IN  << [step |-> "visa", kept |-> found, removed |-> Len(df) - found] >>
    ELSE <<>>

\* What filter_by_exclusion prints about its argument: the rows excluded
\* (original_count - filtered_count) and the rows remaining
exclusion_report(cfg, df) ==
    IF ExclusionFills(cfg, df)
    THEN LET original_count == Len(df)
             filtered_count == Len(filter_by_exclusion(cfg, df))
         IN  << [step |-> "exclusion", kept |-> filtered_count,
                 removed |-> original_count - filtered_count] >>
    ELSE <<>>

\* If run() applied the exclusion filter first
apply_filters_exclusion_first(cfg, df) ==
    LET excl == filter_by_exclusion(cfg, df)
    IN  [ filtered |-> filter_by_visa_sponsorship(cfg, excl),
          printed |-> exclusion_report(cfg, df) \o visa_report(cfg, excl) ]

\* The two filter calls of run(): the table that results and what is printed
apply_filters(cfg, df) ==
    LET visa == filter_by_visa_sponsorship(cfg, df)
    IN  [ filtered |-> filter_by_exclusion(cfg, visa),
          printed |-> visa_report(cfg, df) \o exclusion_report(cfg, visa) ]

FilterAndSave ==
    /\ pc = "filter"
    /\ LET visa == filter_by_visa_sponsorship(config, jobs_df)
           \* jobs_df after the inclusion pass touched it
           raw1 == IF VisaFills(config, jobs_df) THEN FillNaAll(jobs_df) ELSE jobs_df
           both == apply_filters(config, jobs_df).filtered
           \* with the inclusion filter disabled the exclusion pass is handed
           \* jobs_df itself
           raw2 == IF ~config.filters.visa_sponsorship_filter
                      /\ ExclusionFills(config, raw1)
                   THEN FillNaAll(raw1) ELSE raw1
           noted == IF both = <<>> /\ raw2 # <<>> THEN WithNote(raw2, NoVisaNote)
                    ELSE IF both # <<>> /\ Len(both) < Len(raw2)
                    THEN WithNote(raw2, UnfilteredNote)
                    ELSE raw2
       IN  /\ filtered_df' = both
           /\ printed' = printed \o apply_filters(config, jobs_df).printed
           /\ stats' = [stats EXCEPT !.after_filter = Len(both)]
           /\ jobs_df' = noted
           /\ \E ts \in TimestampPairs :
                  files' = files \o saved(config, raw2, both, output_path, ts[1], ts[2])
    /\ pc' = "done"
    /\ UNCHANGED <<config, output_path, market, current, calls, all_jobs,
                   enabled, text, matched, heap, history>>

NextRun == ScrapePair \/ Combine \/ FilterAndSave

RunStart ==
    /\ pc = "scrape"
    /\ current = 0
    /\ calls = <<>>
    /\ all_jobs = <<>>
    /\ stats = NoStats
    /\ jobs_df = <<>>
    /\ filtered_df = <<>>
    /\ files = <<>>
    /\ printed = <<>>
    /\ IdleSites /\ IdleMatch /\ IdleMerge

\* One (country, role) pair, every setting of the filter toggles, of the
\* output format and path, and postings of every kind of description.
Init ==
    /\ \E vf \in BOOLEAN, ef \in BOOLEAN, dis \in {{}, {"indeed", "linkedin"}},
          fmt \in {"csv", "json", "excel", "xml"} :
          config = [DEFAULT_CONFIG EXCEPT
                       !.countries = <<"germany">>,
                       !.job_roles = <<"DevOps Engineer">>,
                       !.job_sites.disabled = dis,
                       !.filters.visa_sponsorship_filter = vf,
                       !.filters.exclusion_filter = ef,
                       !.output.format = fmt]
    /\ output_path \in {Null, <<"out", ".csv">>, <<"out", ".json">>}
    /\ market = OrdinaryTables(Descriptions)
    /\ RunStart

Spec == Init /\ [][NextRun]_vars

\* Two countries and two roles, the default filters, and postings that all
\* mention a visa keyword, in ordinary and in bulk tables.
InitAgg ==
    /\ \E dis \in {{}, {"indeed", "linkedin"}} :
          config = [DEFAULT_CONFIG EXCEPT !.job_sites.disabled = dis]
    /\ output_path = <<"out", ".csv">>
    /\ market = OrdinaryTables({<<"v">>}) \cup BulkTables
    /\ RunStart

SpecAgg == InitAgg /\ [][NextRun]_vars

----------------------------------------------------------------------------
(* Properties of the aggregation *)

\* The (country, role) pairs in country-major order
ExpectedPairs ==
    Concat([c \in 1..Len(config.countries) |->
               [r \in 1..Len(config.job_roles) |->
                   [country |-> config.countries[c], role |-> config.job_roles[r]]]])

\* The rows the successful calls returned so far, stamped, in call order
RECURSIVE ReturnedRows(_)
ReturnedRows(log) ==
    IF log = <<>> THEN <<>>
    ELSE LET n == Len(log)
             c == log[n]
         IN  ReturnedRows(SubSeq(log, 1, n - 1)) \o
                 (IF c.ok
                  THEN [i \in 1..Len(c.returned) |->
                           [c.returned[i] EXCEPT !.search_country = c.location,
                                                 !.search_role = c.search_term]]
                  ELSE <<>>)

\* The first row of `rows` with the given job_url
FirstWith(rows, url) ==
    rows[CHOOSE i \in 1..Len(rows) :
            /\ rows[i].job_url = url
            /\ \A j \in 1..(i - 1) : rows[j].job_url # url]

\* scrape_all() has returned (run() ends at once on an empty collection)
ScrapeAllReturned == pc = "filter" \/ (pc = "done" /\ all_jobs = <<>>)

\* C2: the collection scrape_all() returns has no two rows with the same
\* job_url, has a row for every job_url of every result table, and the row
\* kept for a job_url is the first one with it in the country-major,
\* role-minor insertion order.
C2_Dedup ==
    ScrapeAllReturned =>
        LET inserted == ReturnedRows(calls) IN
        /\ \A i, j \in 1..Len(jobs_df) :
               i # j => jobs_df[i].job_url # jobs_df[j].job_url
        /\ \A k \in 1..Len(inserted) :
               \E i \in 1..Len(jobs_df) : jobs_df[i].job_url = inserted[k].job_url
        /\ \A i \in 1..Len(jobs_df) :
               jobs_df[i] = FirstWith(inserted, jobs_df[i].job_url)

\* C2 witness: a job_url returned for two different pairs was kept once, with
\* the stamp of the earlier pair.
C2_Witness ==
    /\ pc = "filter"
    /\ Len(jobs_df) = 2
    /\ \E m, n \in 1..Len(calls) :
           /\ m < n
           /\ calls[m].ok /\ calls[n].ok
           /\ calls[m].location # calls[n].location
           /\ \E a \in 1..Len(calls[m].returned), b \in 1..Len(calls[n].returned) :
                  /\ calls[m].returned[a].job_url = calls[n].returned[b].job_url
                  /\ \E i \in 1..Len(jobs_df) :
                         /\ jobs_df[i].job_url = calls[n].returned[b].job_url
                         /\ jobs_df[i].search_country = calls[m].location

\* The tables scrape_all must have collected: the non-empty tables of the
\* successful calls, stamped, in call order
RECURSIVE CollectedTables(_)
CollectedTables(log) ==
    IF log = <<>> THEN <<>>
    ELSE LET n == Len(log)
             c == log[n]
         IN  CollectedTables(SubSeq(log, 1, n - 1)) \o
                 (IF c.ok /\ c.returned # <<>>
                  THEN << ReturnedRows(<<c>>) >>
                  ELSE <<>>)

\* The calls made so far are those of the first `current` pairs, one each, in
\* country-major order; a failed call added no table and the tables of the
\* other calls are all collected.
CallsInOrder ==
    /\ Len(calls) = current
    /\ \A n \in 1..Len(calls) :
           /\ calls[n].location = ExpectedPairs[n].country
           /\ calls[n].search_term = ExpectedPairs[n].role
    /\ all_jobs = CollectedTables(calls)
    /\ pc # "scrape" => Len(calls) = Len(ExpectedPairs)
    /\ pc = "filter" =>
           \A n \in 1..Len(calls) : \A a \in 1..Len(calls[n].returned) :
               calls[n].ok =>
                   \E i \in 1..Len(jobs_df) :
                       jobs_df[i].job_url = calls[n].returned[a].job_url

\* C3 as stated: whatever the configuration, the collaborator is invoked
\* exactly once for each pair, in country-major order; a failed call
\* contributes no rows and the remaining calls still take place.
C3_Original == CallsInOrder

\* C3 amended: when at least one site is enabled, the collaborator is invoked
\* exactly once for each (country, role) pair, in country-major order, one
\* call after another; a failed call contributes no rows, is not retried, and
\* the calls for the remaining pairs still take place with their rows in the
\* result.  When no site is enabled the collaborator is never invoked and
\* every pair contributes no rows.
C3_Calls ==
    IF get_enabled_sites(config) = <<>>
    THEN calls = <<>> /\ all_jobs = <<>>
    ELSE CallsInOrder

\* C3 witness: the first call failed, a later call returned rows, and those
\* rows are in the collection scrape_all() returned.
C3_Witness ==
    /\ pc = "filter"
    /\ Len(calls) = 4
    /\ ~calls[1].ok
    /\ calls[2].ok /\ calls[2].returned # <<>>
    /\ ~calls[3].ok
    /\ calls[4].ok /\ Len(calls[4].returned) = 2
    /\ calls[1].location = "germany" /\ calls[2].location = "germany"
    /\ calls[2].search_term = "Site Reliability Engineer"
    /\ calls[3].location = "netherlands"
    /\ Len(all_jobs) = 2

\* The rows returned so far by successful calls, before deduplication
RowsReturned == Len(ReturnedRows(calls))

C8_Counters ==
    /\ stats.total_scraped = RowsReturned
    /\ SumOver(stats.by_country, DOMAIN stats.by_country) = stats.total_scraped
    /\ SumOver(stats.by_site, DOMAIN stats.by_site) = stats.total_scraped
    \* two calls of n rows each that share one job_url: 2n scraped, 2n-1 kept
    /\ pc = "filter" =>
           \A m, n \in 1..Len(calls) :
               (/\ m < n
                /\ \A k \in 1..Len(calls) : k \notin {m, n} => calls[k].returned = <<>>
                /\ Len(calls[m].returned) = Len(calls[n].returned)
                /\ \A t \in {m, n} : \A a, b \in 1..Len(calls[t].returned) :
                       a # b => calls[t].returned[a].job_url # calls[t].returned[b].job_url
                /\ Cardinality({calls[m].returned[a].job_url : a \in 1..Len(calls[m].returned)}
                       \cap {calls[n].returned[a].job_url : a \in 1..Len(calls[n].returned)}) = 1)
               => /\ stats.total_scraped = 2 * Len(calls[m].returned)
                  /\ Len(jobs_df) = 2 * Len(calls[m].returned) - 1

C8_Monotone ==
    /\ stats'.total_scraped >= stats.total_scraped
    /\ \A c \in DOMAIN stats.by_country :
           c \in DOMAIN stats'.by_country /\ stats'.by_country[c] >= stats.by_country[c]
    /\ \A site \in DOMAIN stats.by_site :
           site \in DOMAIN stats'.by_site /\ stats'.by_site[site] >= stats.by_site[site]

\* C8: at every point of the aggregation total_scraped is the number of rows
\* returned so far by successful calls, before deduplication; the by_country
\* counters and the by_site counters each sum to total_scraped; no counter
\* ever decreases; and two calls of n rows each sharing one job_url give
\* total_scraped = 2n and a deduplicated collection of 2n-1 rows.
C8_Stats == [](C8_Counters) /\ [][C8_Monotone]_vars

\* C8 witness: two calls of 5 rows each sharing one job_url gave
\* total_scraped = 10 and a deduplicated collection of 9 rows.
C8_Witness ==
    /\ pc = "filter"
    /\ \E m, n \in 1..Len(calls) :
           /\ m # n
           /\ Len(calls[m].returned) = 5 /\ Len(calls[n].returned) = 5
           /\ \A k \in 1..Len(calls) : k \notin {m, n} => calls[k].returned = <<>>
    /\ stats.total_scraped = 10
    /\ Len(jobs_df) = 9
    /\ Cardinality(DOMAIN stats.by_country) = 2

----------------------------------------------------------------------------
(* Properties of run() *)

\* The rows of `rows` that are the first with their job_url, in order
RECURSIVE FirstOccurrences(_)
FirstOccurrences(rows) ==
    IF rows = <<>> THEN <<>>
    ELSE LET n == Len(rows)
             init == FirstOccurrences(SubSeq(rows, 1, n - 1))
         IN  IF \E j \in 1..(n - 1) : rows[j].job_url = rows[n].job_url
             THEN init ELSE Append(init, rows[n])

\* The deduplicated raw collection of the run
Raw == FirstOccurrences(ReturnedRows(calls))

\* The description of a raw row holds an inclusion / an exclusion keyword
HasVisaKeyword(r) ==
    SomeKeywordOccurs(config.visa_keywords, FillNa(r.description),
                      ~config.filters.case_sensitive)

HasExclusionKeyword(r) ==
    SomeKeywordOccurs(config.exclusion_keywords, FillNa(r.description),
                      ~config.filters.case_sensitive)

\* The raw rows that pass the enabled filters
Passed ==
    SelectSeq(Raw, LAMBDA r :
        /\ config.filters.visa_sponsorship_filter => HasVisaKeyword(r)
        /\ config.filters.exclusion_filter => ~HasExclusionKeyword(r))

\* A written table holds exactly the given rows, in order, without their
\* descriptions, every one with the given flag and note
Holds(file, rows, flag, note) ==
    /\ Len(file.rows) = Len(rows)
    /\ \A i \in 1..Len(rows) :
           file.rows[i] = [ job_url |-> rows[i].job_url, site |-> rows[i].site,
                            search_country |-> rows[i].search_country,
                            search_role |-> rows[i].search_role,
                            visa_sponsorship_mentioned |-> flag, note |-> note ]

\* The tables handed whole to save_results (not its per-site extracts)
Tables == SelectSeq(files, LAMBDA f : f.kind = "table")

FilterFlag == IF config.filters.visa_sponsorship_filter THEN "True" ELSE Absent

C6_FiltersDisabled ==
    (/\ pc = "done"
     /\ ~config.filters.visa_sponsorship_filter
     /\ ~config.filters.exclusion_filter)
    => filtered_df = Raw

\* C6 witness: with both toggles disabled, a row without a visa keyword, a
\* row with an exclusion keyword and a row without description all came through.
C6_Witness ==
    /\ pc = "done"
    /\ ~config.filters.visa_sponsorship_filter
    /\ ~config.filters.exclusion_filter
    /\ Len(filtered_df) = 2
    /\ filtered_df[1].description = Null
    /\ filtered_df[2].description = <<"e">>
    /\ filtered_df[1].visa_sponsorship_mentioned = Absent

----------------------------------------------------------------------------
(* Order of the two filter passes in run() *)

\* The raw rows the inclusion pass keeps (all of them when it is disabled)
Included ==
    SelectSeq(Raw, LAMBDA r : config.filters.visa_sponsorship_filter => HasVisaKeyword(r))

\* The exclusion pass has rows and keywords to work on
ExclusionRuns ==
    /\ config.filters.exclusion_filter
    /\ config.exclusion_keywords # <<>>
    /\ Included # <<>>

Reports(step) == SelectSeq(printed, LAMBDA e : e.step = step)

\* C11: run() applies the inclusion filter first, to the deduplicated raw
\* collection, and the exclusion filter afterwards, to the inclusion filter's
\* result; the number of rows the exclusion step reports as removed is
\* measured against the inclusion-filtered set; stats.after_filter is the
\* number of rows that survive both passes.
C11_FilterOrder ==
    (pc = "done" /\ Raw # <<>>) =>
        /\ stats.after_filter = Len(Passed)
        /\ Len(filtered_df) = Len(Passed)
        /\ \A i \in 1..Len(Passed) : filtered_df[i].job_url = Passed[i].job_url
        /\ Reports("visa") =
               IF config.filters.visa_sponsorship_filter
               THEN << [step |-> "visa", kept |-> Len(Included),
                        removed |-> Len(Raw) - Len(Included)] >>
               ELSE <<>>
        /\ Reports("exclusion") =
               IF ExclusionRuns
               THEN << [step |-> "exclusion", kept |-> Len(Passed),
                        removed |-> Len(Included) - Len(Passed)] >>
               ELSE <<>>
        /\ printed = Reports("visa") \o Reports("exclusion")

\* C11 witness: of two raw rows that both hold an exclusion keyword only one
\* holds a visa keyword; the exclusion step reported one row removed (not
\* two) and after_filter is 0.
C11_Witness ==
    /\ pc = "done"
    /\ Len(Raw) = 2
    /\ \A i \in 1..2 : HasExclusionKeyword(Raw[i])
    /\ Len(Included) = 1
    /\ Len(printed) = 2
    /\ printed[1].step = "visa" /\ printed[1].removed = 1
    /\ printed[2].step = "exclusion" /\ printed[2].removed = 1
    /\ stats.after_filter = 0

----------------------------------------------------------------------------
(* Paths of the files one run() writes *)

\* C12: every artifact of one run() is written to its own path: no file
\* written earlier in the run (the primary output, a per-site file, the
\* '_all_jobs' or '_unfiltered' variant) is overwritten by a later one.
C12_OwnPaths ==
    \A i, j \in 1..Len(files) : i # j => files[i].path # files[j].path

----------------------------------------------------------------------------
(* The class attribute DEFAULT_CONFIG and the configurations copied from   *)
(* it.  In the heap of dict objects, key "a" of DEFAULT_CONFIG stands for  *)
(* a nested section (job_sites, search_params, output, filters) and key    *)
(* "b" for a top-level value (job_roles, countries).                       *)

DefaultRoot == <<"default">>

ConfigRoot == <<"config">>

\* The dict objects of DEFAULT_CONFIG with their documented values
DefaultObjects ==
    [addr \in {DefaultRoot, Child(DefaultRoot, "a")} |->
        IF addr = DefaultRoot
        THEN [k \in Keys |-> IF k = "a" THEN Ref(Child(DefaultRoot, "a")) ELSE Scalar(1)]
        ELSE [k \in Keys |-> Scalar(1)]]

\* No dict object at an address
NoObjects(root) == [addr \in {root} \cup {Child(root, k) : k \in Keys} |-> <<>>]

\* dict.copy(): a new dict object holding the same values, nested dicts by
\* reference
dict_copy(h, from, to) == [h EXCEPT ![to] = h[from]]

InitDefaults ==
    /\ heap = DefaultObjects @@ NoObjects(ConfigRoot) @@ NoObjects(OverRoot)
    /\ history = <<>>
    /\ pc = "defaults"
    /\ config = DEFAULT_CONFIG
    /\ IdleRun /\ IdleSites /\ IdleMatch

\* JobScraper() without a configuration file
Construct ==
    /\ pc = "defaults"
    /\ heap' = dict_copy(heap, DefaultRoot, ConfigRoot)
    /\ UNCHANGED <<config, output_path, market, pc, current, calls, all_jobs, stats,
                   jobs_df, filtered_df, files, printed, enabled, text, matched,
                   history>>

\* JobScraper(config_path): the copy, then load_config merges the overlay
\* read from the file
ConstructWithOverlay ==
    /\ pc = "defaults"
    /\ \E user_config \in Objects(OverRoot), order \in KeyOrders :
           heap' = _deep_update(user_config @@ dict_copy(heap, DefaultRoot, ConfigRoot),
                                ConfigRoot, OverRoot, order)
    /\ UNCHANGED <<config, output_path, market, pc, current, calls, all_jobs, stats,
                   jobs_df, filtered_df, files, printed, enabled, text, matched,
                   history>>

\* interactive_mode: the copy, a top-level assignment (config['job_roles'] =
\* roles) and an assignment inside a section
\* (config['job_sites']['disabled'] = disabled_sites)
InteractiveMode ==
    /\ pc = "defaults"
    /\ \E roles \in ScalarValues, disabled_sites \in ScalarValues :
           LET h1 == dict_copy(heap, DefaultRoot, ConfigRoot)
               h2 == [h1 EXCEPT ![ConfigRoot] = Put(h1[ConfigRoot], "b", roles)]
               section == h2[ConfigRoot]["a"].ref
           IN  heap' = [h2 EXCEPT ![section] = Put(h2[section], "a", disabled_sites)]
    /\ UNCHANGED <<config, output_path, market, pc, current, calls, all_jobs, stats,
                   jobs_df, filtered_df, files, printed, enabled, text, matched,
                   history>>

NextDefaults == Construct \/ ConstructWithOverlay \/ InteractiveMode

SpecDefaults == InitDefaults /\ [][NextDefaults]_vars

\* C13: configuring a scraper never changes the built-in defaults: after any
\* sequence of constructions with overlays and interactive configurations,
\* DEFAULT_CONFIG still holds its documented values.
C13_DefaultsKept ==
    pc = "defaults" => SameTree(heap, DefaultRoot, DefaultObjects, DefaultRoot)

====
